---- MODULE Spec2Model ----
(***************************************************************************)
(* Model of src/app.py: the per-year financial analysis run (fetch, inner  *)
(* join on fiscal-period-end date, 2021+ filter, field resolution, the     *)
(* per-row metrics loop) and the favorites list persisted in               *)
(* favorites.json.                                                         *)
(*                                                                         *)
(* Representation                                                          *)
(*  - a cell of a data frame is NaN (pandas null) or a number; Python's    *)
(*    None is a third value that only an unresolved column produces.       *)
(*    The provider's frames are numeric, so cells are never None.          *)
(*  - a date is an ordinal 1..NumDates; two consecutive ordinals share a   *)
(*    calendar year, the first year being YearFloor - 1.                   *)
(*  - an optional column name (Python: a str or None) is a sequence of     *)
(*    length 0 or 1.                                                       *)
(*  - a rendered string is a record: "-" is Dash, "N/A (적자)" is Loss,     *)
(*    f"{x:.2f}" is Fixed with the scaled, rounded integer, "nan" is what  *)
(*    a float NaN formats to.                                              *)
(*  - the provider calls return; an exception raised by the provider is    *)
(*    not part of the model.                                               *)
(*  - Descending, SecondFirst, DebtRatioUnguarded, AllBars, SkipEmptyCheck, *)
(*    SaveNothing and AlwaysAppend are faulty variants of the definition   *)
(*    that follows each of them; the model does not use them.              *)
(***************************************************************************)
EXTENDS Integers, Sequences, FiniteSets, TLC

VARIABLES pc, target_ticker, fin, bs, hist, df_merged, fields, result_data,
          favorites, file, call, write_failed

vars == <<pc, target_ticker, fin, bs, hist, df_merged, fields, result_data,
          favorites, file, call, write_failed>>

run_vars == <<pc, target_ticker, fin, bs, hist, df_merged, fields, result_data>>

fav_vars == <<favorites, file, call, write_failed>>

(***************************************************************************)
(* Bounds and program constants                                            *)
(***************************************************************************)
YearFloor == 2021

NumDates == 6

MaxIdx == 2

MaxVal == 2

MaxCols == 3

(***************************************************************************)
(* Values                                                                  *)
(***************************************************************************)
NaN == [k |-> "nan", v |-> 0]

None == [k |-> "none", v |-> 0]

Num(n) == [k |-> "num", v |-> n]

Values == {NaN} \cup {Num(n) : n \in -1..MaxVal}

\* pd.isna / pd.notnull: NaN and None are null
IsNull(x) == x.k # "num"

\* Python truthiness of a cell: None and 0 are falsy, NaN is truthy
Truthy(x) == (x.k = "nan") \/ (x.k = "num" /\ x.v # 0)

Dates == 1..NumDates

\* DatetimeIndex.year
YearOf(d) == (YearFloor - 1) + ((d - 1) \div 2)

(***************************************************************************)
(* Rendered strings                                                        *)
(***************************************************************************)
Dash == [k |-> "-", digits |-> 0, n |-> 0, m |-> 0, unit |-> ""]

\* "N/A (적자)"
Loss == [k |-> "N/A (loss)", digits |-> 0, n |-> 0, m |-> 0, unit |-> ""]

NanStr == [k |-> "nan", digits |-> 0, n |-> 0, m |-> 0, unit |-> ""]

\* the integer nearest to num / den, ties to even: what a float format does
\* with a quotient whose ties are dyadic (all ties within the bounds are)
RoundHalfEven(num, den) ==
    LET n == IF den < 0 THEN -num ELSE num
        d == IF den < 0 THEN -den ELSE den
        q == n \div d
        r == n - q * d
    IN  IF 2 * r < d THEN q
        ELSE IF 2 * r > d THEN q + 1
        ELSE IF q % 2 = 0 THEN q ELSE q + 1

Pow10(e) == IF e = 0 THEN 1 ELSE IF e = 1 THEN 10 ELSE 100

\* f"{num/den:.<digits>f}" followed by a unit: n is the value scaled by 10^digits
Fixed(num, den, digits, unit) ==
    [k |-> "fixed", digits |-> digits, n |-> RoundHalfEven(num * Pow10(digits), den),
     m |-> 0, unit |-> unit]

\* f"{low:.1f} ~ {high:.1f}배"
Range(low, high, den) ==
    [k |-> "range", digits |-> 1, n |-> RoundHalfEven(low * 10, den),
     m |-> RoundHalfEven(high * 10, den), unit |-> "x"]

Abs(n) == IF n < 0 THEN -n ELSE n

get_currency_symbol(ticker) ==
    LET n == Len(ticker)
        suffix == IF n >= 3 THEN SubSeq(ticker, n - 2, n) ELSE ""
    IN  IF suffix = ".KS" \/ suffix = ".KQ" THEN "KRW" ELSE "$"

format_large_currency(value, symbol) ==
    IF IsNull(value) \/ value.v = 0 THEN Dash
    ELSE LET a == Abs(value.v) IN
         IF symbol = "KRW"
         THEN IF a \div 1000000 >= 1000000
              THEN Fixed(value.v \div 100000, 10000000, 1, "jo")
              ELSE IF a >= 100000000
                   THEN Fixed(value.v, 100000000, 0, "eok")
                   ELSE Fixed(value.v, 1, 0, "")
         ELSE IF a >= 1000000000
              THEN Fixed(value.v \div 10, 100000000, 2, "B")
              ELSE IF a >= 1000000
                   THEN Fixed(value.v, 1000000, 2, "M")
                   ELSE Fixed(value.v, 1, 0, "")

(***************************************************************************)
(* Data frames                                                             *)
(***************************************************************************)
EmptyFrame == [columns |-> <<>>, index |-> {}, data |-> <<>>]

\* DataFrame.empty: either axis has length 0
IsEmpty(df) == df.index = {} \/ Len(df.columns) = 0

\* the cell values the provider reports for a date and a column position
FixtureCell(d, c) ==
    LET n == (3 * d + c) % (MaxVal + 3)
    IN  IF n = 0 THEN NaN ELSE Num(n - 2)

Frame(cols, idx) ==
    [columns |-> cols, index |-> idx,
     data |-> [d \in idx |-> [c \in 1..Len(cols) |-> FixtureCell(d, c)]]]

Range_(s) == {s[i] : i \in 1..Len(s)}

\* DataFrame.join(..., lsuffix='_fin', rsuffix='_bs', how='inner')
Join(left, right) ==
    LET lc == left.columns
        rc == right.columns
        ln(i) == IF lc[i] \in Range_(rc) THEN lc[i] \o "_fin" ELSE lc[i]
        rn(i) == IF rc[i] \in Range_(lc) THEN rc[i] \o "_bs" ELSE rc[i]
        idx == left.index \cap right.index
    IN  [columns |-> [i \in 1..Len(lc) |-> ln(i)] \o [i \in 1..Len(rc) |-> rn(i)],
         index |-> idx,
         data |-> [d \in idx |-> left.data[d] \o right.data[d]]]

\* df[df.index.year >= 2021]
FilterYear(df) ==
    LET idx == {d \in df.index : YearOf(d) >= YearFloor}
    IN  [columns |-> df.columns, index |-> idx, data |-> [d \in idx |-> df.data[d]]]

Min(S) == CHOOSE x \in S : \A y \in S : x <= y

Max(S) == CHOOSE x \in S : \A y \in S : x >= y

RECURSIVE Ascending(_)
Ascending(S) == IF S = {} THEN <<>> ELSE <<Min(S)>> \o Ascending(S \ {Min(S)})

RECURSIVE Descending(_)
Descending(idx) == IF idx = {} THEN <<>> ELSE <<Max(idx)>> \o Descending(idx \ {Max(idx)})

\* df.sort_index(ascending=True): the order in which iterrows visits the rows
sort_index(idx) == Ascending(idx)

(***************************************************************************)
(* Field resolution                                                        *)
(***************************************************************************)
\* Python: pattern in name (substring containment)
Contains(name, pattern) ==
    \E i \in 1..(Len(name) - Len(pattern) + 1) :
        SubSeq(name, i, i + Len(pattern) - 1) = pattern

\* next((c for c in columns if pattern in c), None)
RECURSIVE NextMatch(_, _)
NextMatch(columns, pattern) ==
    IF columns = <<>> THEN <<>>
    ELSE IF Contains(Head(columns), pattern) THEN <<Head(columns)>>
    ELSE NextMatch(Tail(columns), pattern)

SecondFirst(columns, first, second) ==
    IF NextMatch(columns, second) # <<>> THEN NextMatch(columns, second)
    ELSE NextMatch(columns, first)

\* x = next(... first ...); if not x: x = next(... second ...)
Fallback(columns, first, second) ==
    IF NextMatch(columns, first) # <<>> THEN NextMatch(columns, first)
    ELSE NextMatch(columns, second)

NoFields == [rev_col |-> <<>>, op_col |-> <<>>, liab_col |-> <<>>,
             equity_col |-> <<>>, eps_col |-> <<>>]

ResolveFields(columns) ==
    [rev_col |-> NextMatch(columns, "Total Revenue"),
     op_col |-> NextMatch(columns, "Operating Income"),
     liab_col |-> Fallback(columns, "Total Liabilities Net Minority Interest",
                           "Total Liabilities"),
     equity_col |-> Fallback(columns, "Stockholders Equity", "Common Stock Equity"),
     eps_col |-> Fallback(columns, "Diluted EPS", "Basic EPS")]

(***************************************************************************)
(* The per-row computation of the loop over df_merged.iterrows()           *)
(***************************************************************************)
RECURSIVE IndexOf(_, _)
IndexOf(columns, name) ==
    IF Head(columns) = name THEN 1 ELSE 1 + IndexOf(Tail(columns), name)

\* row[col] for a resolved column
Cell(columns, row, col) == row[IndexOf(columns, col[1])]

\* a division by a zero equity, as a float formats it
InfStr == [k |-> "inf", digits |-> 0, n |-> 0, m |-> 0, unit |-> ""]

DebtRatioUnguarded(columns, row, flds) ==
    IF flds.liab_col # <<>> /\ flds.equity_col # <<>>
    THEN LET liabilities == Cell(columns, row, flds.liab_col)
             equity == Cell(columns, row, flds.equity_col)
         IN  IF ~IsNull(liabilities) /\ ~IsNull(equity)
             THEN IF equity.v = 0 THEN InfStr
                  ELSE Fixed(liabilities.v, equity.v, 2, "")
             ELSE Dash
    ELSE Dash

debt_ratio_str(columns, row, flds) ==
    IF flds.liab_col # <<>> /\ flds.equity_col # <<>>
    THEN LET liabilities == Cell(columns, row, flds.liab_col)
             equity == Cell(columns, row, flds.equity_col)
         IN  IF ~IsNull(liabilities) /\ ~IsNull(equity) /\ equity.v # 0
             THEN Fixed(liabilities.v, equity.v, 2, "")
             ELSE Dash
    ELSE Dash

AllBars(h, year) == h

\* hist[hist.index.year == year]
hist_year(h, year) == {b \in h : YearOf(b.date) = year}

\* eps = row[eps_col] if eps_col else None
eps_of(columns, row, flds) ==
    IF flds.eps_col # <<>> THEN Cell(columns, row, flds.eps_col) ELSE None

\* f"{eps:,.0f}" if currency_symbol == "KRW" else f"{eps:.2f}"; formatting
\* None raises TypeError, which ComputeYear reports
eps_str(eps, symbol) ==
    IF eps.k = "nan" THEN NanStr
    ELSE IF symbol = "KRW" THEN Fixed(eps.v, 1, 0, "")
    ELSE Fixed(eps.v, 1, 2, "")

\* the if / elif that sets per_range_str; a comparison with NaN is False
per_range_str(bars, eps) ==
    IF bars # {} /\ Truthy(eps) /\ eps.k = "num" /\ eps.v > 0
    THEN Range(Min({b.Low : b \in bars}), Max({b.High : b \in bars}), eps.v)
    ELSE IF Truthy(eps) /\ eps.k = "num" /\ eps.v <= 0 THEN Loss
    ELSE Dash

\* one iteration of the loop body: raised is TRUE when the f-string that
\* formats eps raises TypeError (eps is None); then no row is appended
ComputeYear(columns, row, date, flds, h, symbol) ==
    LET year == YearOf(date)
        revenue == IF flds.rev_col # <<>> THEN Cell(columns, row, flds.rev_col) ELSE Num(0)
        op_income == IF flds.op_col # <<>> THEN Cell(columns, row, flds.op_col) ELSE Num(0)
        eps == eps_of(columns, row, flds)
    IN  [raised |-> eps.k = "none",
         debt |-> debt_ratio_str(columns, row, flds),
         row |-> [year |-> year,
                  revenue |-> format_large_currency(revenue, symbol),
                  op_income |-> format_large_currency(op_income, symbol),
                  eps |-> IF eps.k = "none" THEN Dash ELSE eps_str(eps, symbol),
                  per |-> per_range_str(hist_year(h, year), eps),
                  debt |-> debt_ratio_str(columns, row, flds),
                  date |-> date]]

(***************************************************************************)
(* Inputs the provider can return                                          *)
(***************************************************************************)
Tickers == {"NVDA", "005930.KS"}

FinColumnChoices ==
    { <<"Total Revenue", "Operating Income", "Diluted EPS">>,
      <<"Basic EPS">>,
      <<"Operating Income">> }

BsColumnChoices ==
    { <<"Total Liabilities Net Minority Interest", "Stockholders Equity">>,
      <<"Total Assets">> }

\* daily bars: two in the first year of the range, one in the next
Bars == { [date |-> 3, Low |-> 10, High |-> 20],
          [date |-> 4, Low |-> 8, High |-> 12],
          [date |-> 5, Low |-> 30, High |-> 40] }

HistChoices == { {}, Bars }

IndexChoices == {idx \in SUBSET Dates : idx # {} /\ Cardinality(idx) <= MaxIdx}

Frames(choices) ==
    {EmptyFrame} \cup {Frame(cols, idx) : cols \in choices, idx \in IndexChoices}

NoMerge == [columns |-> <<>>, index |-> {}, data |-> <<>>, order |-> <<>>]

\* lines 240-254: transpose, to_datetime, inner join, 2021+ filter, sort
Merge(f, b) ==
    LET m == FilterYear(Join(f, b))
    IN  [columns |-> m.columns, index |-> m.index, data |-> m.data,
         order |-> sort_index(m.index)]

(***************************************************************************)
(* The analysis run (lines 220-345)                                        *)
(***************************************************************************)
\* the last add/remove call: its arguments and the list and file it found
NoCall == [op |-> "none", ticker |-> "", present |-> FALSE,
           favorites_before |-> <<>>, file_before |-> [k |-> "missing", items |-> <<>>]]

FavIdle ==
    /\ favorites = <<>>
    /\ file = [k |-> "missing", items |-> <<>>]
    /\ call = NoCall
    /\ write_failed = FALSE

RunIdle ==
    /\ pc = "idle"
    /\ target_ticker = "NVDA"
    /\ fin = EmptyFrame
    /\ bs = EmptyFrame
    /\ hist = {}
    /\ df_merged = NoMerge
    /\ fields = NoFields
    /\ result_data = <<>>

Init == RunIdle /\ FavIdle

\* lines 222-227: stock.financials, stock.balance_sheet, stock.history
Fetch ==
    /\ pc = "idle"
    /\ \E t \in Tickers, f \in Frames(FinColumnChoices),
          b \in Frames(BsColumnChoices), h \in HistChoices :
          /\ target_ticker' = t
          /\ fin' = f
          /\ bs' = b
          /\ hist' = h
    /\ pc' = "fetched"
    /\ UNCHANGED <<df_merged, fields, result_data>>
    /\ UNCHANGED fav_vars

SkipEmptyCheck(f, b) == FALSE

\* line 229: fin.empty or bs.empty
StatementsEmpty(f, b) == IsEmpty(f) \/ IsEmpty(b)

\* lines 229-231: st.error, st.stop
NoStatementData ==
    /\ pc = "fetched"
    /\ StatementsEmpty(fin, bs)
    /\ pc' = "no_statement_data"
    /\ UNCHANGED <<target_ticker, fin, bs, hist, df_merged, fields, result_data>>
    /\ UNCHANGED fav_vars

\* lines 240-254
JoinFilterSort ==
    /\ pc = "fetched"
    /\ ~StatementsEmpty(fin, bs)
    /\ df_merged' = Merge(fin, bs)
    /\ pc' = "joined"
    /\ UNCHANGED <<target_ticker, fin, bs, hist, fields, result_data>>
    /\ UNCHANGED fav_vars

\* lines 256-258: st.warning, st.stop
NoDataInRange ==
    /\ pc = "joined"
    /\ IsEmpty(df_merged)
    /\ pc' = "no_data_in_range"
    /\ UNCHANGED <<target_ticker, fin, bs, hist, df_merged, fields, result_data>>
    /\ UNCHANGED fav_vars

\* lines 263-280
Resolve ==
    /\ pc = "joined"
    /\ ~IsEmpty(df_merged)
    /\ fields' = ResolveFields(df_merged.columns)
    /\ result_data' = <<>>
    /\ pc' = "loop"
    /\ UNCHANGED <<target_ticker, fin, bs, hist, df_merged>>
    /\ UNCHANGED fav_vars

\* lines 282-319: one iteration; an exception leaves the loop for the
\* handler of lines 344-345
ComputeRow ==
    /\ pc = "loop"
    /\ Len(result_data) < Len(df_merged.order)
    /\ LET date_idx == df_merged.order[Len(result_data) + 1]
           out == ComputeYear(df_merged.columns, df_merged.data[date_idx], date_idx,
                              fields, hist, get_currency_symbol(target_ticker))
       IN  IF out.raised
           THEN /\ pc' = "exception"
                /\ UNCHANGED result_data
           ELSE /\ result_data' = Append(result_data, out.row)
                /\ UNCHANGED pc
    /\ UNCHANGED <<target_ticker, fin, bs, hist, df_merged, fields>>
    /\ UNCHANGED fav_vars

\* lines 324-342: the table is shown
Display ==
    /\ pc = "loop"
    /\ Len(result_data) = Len(df_merged.order)
    /\ pc' = "done"
    /\ UNCHANGED <<target_ticker, fin, bs, hist, df_merged, fields, result_data>>
    /\ UNCHANGED fav_vars

Terminal == pc \in {"done", "no_statement_data", "no_data_in_range", "exception"}

\* the script is run again from the top on the next interaction
Rerun ==
    /\ Terminal
    /\ pc' = "idle"
    /\ target_ticker' = "NVDA"
    /\ fin' = EmptyFrame
    /\ bs' = EmptyFrame
    /\ hist' = {}
    /\ df_merged' = NoMerge
    /\ fields' = NoFields
    /\ result_data' = <<>>
    /\ UNCHANGED fav_vars

Next ==
    \/ Fetch
    \/ NoStatementData
    \/ JoinFilterSort
    \/ NoDataInRange
    \/ Resolve
    \/ ComputeRow
    \/ Display
    \/ Rerun

Spec == Init /\ [][Next]_vars

(***************************************************************************)
(* The loop body over every cell value: the run is started at the loop     *)
(* (line 282) on a one-row df_merged whose cells range over Values.        *)
(***************************************************************************)
\* the first date of the year range, and the last date
CalcDates == {2 * (YearFloor - (YearFloor - 1)) + 1, NumDates}

DataFrame(cols, d, row) == [columns |-> cols, index |-> {d}, data |-> (d :> row)]

InitCalc ==
    /\ FavIdle
    /\ pc = "loop"
    /\ result_data = <<>>
    /\ target_ticker \in Tickers
    /\ hist \in HistChoices
    /\ \E d \in CalcDates, fc \in FinColumnChoices, bc \in BsColumnChoices :
         \E fr \in [1..Len(fc) -> Values], br \in [1..Len(bc) -> Values] :
            /\ fin = DataFrame(fc, d, fr)
            /\ bs = DataFrame(bc, d, br)
    /\ df_merged = Merge(fin, bs)
    /\ fields = ResolveFields(df_merged.columns)

NextCalc ==
    \/ ComputeRow
    \/ Display

SpecCalc == InitCalc /\ [][NextCalc]_vars

(***************************************************************************)
(* Field resolution over every short column list: the run is started after *)
(* the fetch (line 229) with one common date in range.                     *)
(***************************************************************************)
NamePool ==
    { "Total Revenue", "Operating Revenue",
      "Operating Income", "Total Operating Income As Reported",
      "Total Liabilities Net Minority Interest", "Total Liabilities",
      "Total Non Current Liabilities Net Minority Interest",
      "Stockholders Equity", "Common Stock Equity",
      "Diluted EPS", "Basic EPS" }

\* row labels of a frame are distinct
ColumnLists ==
    UNION { {c \in [1..n -> NamePool] : \A i, j \in 1..n : c[i] = c[j] => i = j}
            : n \in 1..MaxCols }

BsResolveChoices == { <<"Total Assets">>, <<"Total Liabilities", "Diluted EPS">> }

InitResolve ==
    /\ FavIdle
    /\ pc = "fetched"
    /\ target_ticker = "NVDA"
    /\ hist = {}
    /\ df_merged = NoMerge
    /\ fields = NoFields
    /\ result_data = <<>>
    /\ \E fc \in ColumnLists, bc \in BsResolveChoices :
          /\ fin = Frame(fc, CalcDates)
          /\ bs = Frame(bc, CalcDates)

NextResolve ==
    \/ JoinFilterSort
    \/ Resolve

SpecResolve == InitResolve /\ [][NextResolve]_vars

(***************************************************************************)
(* Favorites (lines 80-120)                                                *)
(***************************************************************************)
FavTickers == {"NVDA", "AAPL", "005930.KS"}

InList(t, list) == \E i \in 1..Len(list) : list[i] = t

NoDuplicates(list) == \A i, j \in 1..Len(list) : list[i] = list[j] => i = j

\* the lists a session can have written: no ticker twice
FavoriteLists ==
    UNION { {l \in [1..n -> FavTickers] : NoDuplicates(l)}
            : n \in 0..Cardinality(FavTickers) }

Missing == [k |-> "missing", items |-> <<>>]

Corrupt == [k |-> "corrupt", items |-> <<>>]

\* json.dump(fav_list, f): the file holds the JSON array of the tickers
JsonFile(list) == [k |-> "json", items |-> list]

\* the file is absent, unparsable (a write that failed half way), or holds
\* what an earlier session saved
InitialFiles == {Missing, Corrupt} \cup {JsonFile(l) : l \in FavoriteLists}

\* lines 82-90: [] when the file is missing or json.load raises
load_favorites(f) == IF f.k = "json" THEN f.items ELSE <<>>

WriteOutcomes == {"ok", "open_fails", "dump_fails"}

SaveNothing(f, fav_list, outcome) == f

\* lines 92-98: open(..., "w") truncates the file, json.dump writes the list;
\* an exception of either is caught and reported with st.error
save_favorites(f, fav_list, outcome) ==
    IF outcome = "ok" THEN JsonFile(fav_list)
    ELSE IF outcome = "open_fails" THEN f
    ELSE Corrupt

\* list.remove(t): the first occurrence
RECURSIVE Remove(_, _)
Remove(list, t) ==
    IF list = <<>> THEN <<>>
    ELSE IF Head(list) = t THEN Tail(list)
    ELSE <<Head(list)>> \o Remove(Tail(list), t)

AlwaysAppend(list, t) == TRUE

\* line 113: ticker not in st.session_state['favorites']
ShouldAdd(list, t) == ~InList(t, list)

InitFav ==
    /\ RunIdle
    /\ file \in InitialFiles
    /\ favorites = load_favorites(file)
    /\ call = NoCall
    /\ write_failed = FALSE

\* lines 112-115
add_favorite ==
    /\ \E t \in FavTickers, w \in WriteOutcomes :
          /\ call' = [op |-> "add", ticker |-> t, present |-> InList(t, favorites),
                      favorites_before |-> favorites, file_before |-> file]
          /\ IF ShouldAdd(favorites, t)
             THEN /\ favorites' = Append(favorites, t)
                  /\ file' = save_favorites(file, favorites', w)
                  /\ write_failed' = (w # "ok")
             ELSE UNCHANGED <<favorites, file, write_failed>>
    /\ UNCHANGED run_vars

\* lines 117-120
remove_favorite ==
    /\ \E t \in FavTickers, w \in WriteOutcomes :
          /\ call' = [op |-> "remove", ticker |-> t, present |-> InList(t, favorites),
                      favorites_before |-> favorites, file_before |-> file]
          /\ IF InList(t, favorites)
             THEN /\ favorites' = Remove(favorites, t)
                  /\ file' = save_favorites(file, favorites', w)
                  /\ write_failed' = (w # "ok")
             ELSE UNCHANGED <<favorites, file, write_failed>>
    /\ UNCHANGED run_vars

\* lines 103-104: a fresh session loads the list from the file
NewSession ==
    /\ favorites' = load_favorites(file)
    /\ call' = NoCall
    /\ write_failed' = FALSE
    /\ UNCHANGED file
    /\ UNCHANGED run_vars

NextFav ==
    \/ add_favorite
    \/ remove_favorite
    \/ NewSession

SpecFav == InitFav /\ [][NextFav]_vars

(***************************************************************************)
(* Properties                                                              *)
(***************************************************************************)
\* the cells of the frame row that output row i was computed from
RowInput(i) == df_merged.data[result_data[i].date]

InputCell(i, col) == Cell(df_merged.columns, RowInput(i), col)

\* n is num / den scaled by scale and rounded to the nearest integer
Nearest(n, num, den, scale) == 2 * Abs(n * den - scale * num) <= Abs(den)

\* the dates that are keys of both statements and lie in the year range
JoinedDates == {d \in fin.index \cap bs.index : YearOf(d) >= YearFloor}

\* the rows of the table the run shows
Emitted == IF pc = "done" THEN result_data ELSE <<>>

\* C1 as stated: adjacent output rows are strictly increasing in year, also
\* when two joined dates fall in the same calendar year.
C1_YearsStrictlyIncreasing ==
    \A i \in 1..(Len(result_data) - 1) :
        result_data[i].year < result_data[i + 1].year

\* C1 amended: adjacent output rows are strictly increasing in fiscal-period-end
\* date, hence non-decreasing in year, and strictly increasing in year exactly
\* when the two dates lie in different calendar years.
C1_RowsAscendByDate ==
    \A i \in 1..(Len(result_data) - 1) :
        /\ result_data[i].date < result_data[i + 1].date
        /\ result_data[i].year <= result_data[i + 1].year
        /\ (result_data[i].year < result_data[i + 1].year)
              <=> (YearOf(result_data[i].date) # YearOf(result_data[i + 1].date))

C1_Witness ==
    /\ pc = "done"
    /\ Len(result_data) >= 2
    /\ result_data[1].year = result_data[2].year
    /\ result_data[1].date < result_data[2].date

\* C2: when the run has ended, the emitted rows are exactly one row per date
\* that is a key of both statements with year >= 2021, and no other row.
C2_OneRowPerJoinedDate ==
    Terminal =>
        /\ {Emitted[i].date : i \in 1..Len(Emitted)} = JoinedDates
        /\ Len(Emitted) = Cardinality(JoinedDates)
        /\ \A i \in 1..Len(Emitted) : Emitted[i].year >= YearFloor

\* C3: the debt ratio of a row is liabilities / equity (two decimals) when both
\* columns resolve, both cells are non-null and equity is not 0; in every
\* other case, equity = 0 included, it is the "unavailable" marker.
C3_DebtRatioGuard ==
    \A i \in 1..Len(result_data) :
        LET ok == /\ fields.liab_col # <<>>
                  /\ fields.equity_col # <<>>
                  /\ ~IsNull(InputCell(i, fields.liab_col))
                  /\ ~IsNull(InputCell(i, fields.equity_col))
                  /\ InputCell(i, fields.equity_col).v # 0
            debt == result_data[i].debt
        IN  IF ok
            THEN /\ debt.k = "fixed"
                 /\ debt.digits = 2
                 /\ Nearest(debt.n, InputCell(i, fields.liab_col).v,
                            InputCell(i, fields.equity_col).v, 100)
            ELSE debt = Dash

C3_Witness ==
    /\ Len(result_data) = 1
    /\ fields.liab_col # <<>>
    /\ fields.equity_col # <<>>
    /\ InputCell(1, fields.liab_col) = Num(2)
    /\ InputCell(1, fields.equity_col) = Num(0)
    /\ result_data[1].debt = Dash

\* C4: a row whose EPS is present and <= 0 (0 included) has the "loss" marker
\* as its PER range, which is not the "unavailable" marker; its revenue and
\* operating income are formatted as for any other row.
C4_LossMarkerForNonPositiveEps ==
    \A i \in 1..Len(result_data) :
        (/\ fields.eps_col # <<>>
         /\ ~IsNull(InputCell(i, fields.eps_col))
         /\ InputCell(i, fields.eps_col).v <= 0)
        => /\ result_data[i].per = Loss
           /\ Loss # Dash
           /\ fields.rev_col # <<>> =>
                result_data[i].revenue =
                    format_large_currency(InputCell(i, fields.rev_col),
                                          get_currency_symbol(target_ticker))
           /\ fields.op_col # <<>> =>
                result_data[i].op_income =
                    format_large_currency(InputCell(i, fields.op_col),
                                          get_currency_symbol(target_ticker))

\* C5: an unresolved or null EPS is not fatal: the run does not end in the
\* exception handler, every joined date gets its row when the run ends, and a
\* row whose EPS is unresolved or null shows "unavailable" for EPS and PER.
C5_MissingEpsNotFatal ==
    /\ pc # "exception"
    /\ pc = "done" => Len(result_data) = Cardinality(JoinedDates)
    /\ \A i \in 1..Len(result_data) :
          (fields.eps_col = <<>> \/ IsNull(InputCell(i, fields.eps_col)))
          => /\ result_data[i].eps = Dash
             /\ result_data[i].per = Dash

C7_EmptyOutcomes ==
    /\ (pc \notin {"idle", "fetched"} /\ (IsEmpty(fin) \/ IsEmpty(bs)))
          => /\ pc = "no_statement_data"
             /\ df_merged = NoMerge
             /\ result_data = <<>>
    /\ (pc \notin {"idle", "fetched", "joined"}
          /\ ~IsEmpty(fin) /\ ~IsEmpty(bs) /\ JoinedDates = {})
          => /\ pc = "no_data_in_range"
             /\ result_data = <<>>
    /\ pc = "no_statement_data" => (IsEmpty(fin) \/ IsEmpty(bs))
    /\ pc = "no_data_in_range" => (~IsEmpty(fin) /\ ~IsEmpty(bs) /\ JoinedDates = {})

C7_Witness ==
    /\ pc = "no_statement_data"
    /\ ~IsEmpty(fin)
    /\ IsEmpty(bs)
    /\ df_merged = NoMerge

\* the first column of cols that contains pattern, if any
FirstContaining(cols, pattern) ==
    LET hits == {i \in 1..Len(cols) : Contains(cols[i], pattern)}
    IN  IF hits = {} THEN <<>> ELSE <<cols[Min(hits)]>>

Preferred(cols, first, second) ==
    IF \E i \in 1..Len(cols) : Contains(cols[i], first)
    THEN FirstContaining(cols, first)
    ELSE FirstContaining(cols, second)

\* C8: each logical field resolves to the first column containing its first
\* pattern if any column contains it, otherwise to the first column
\* containing its fallback pattern, otherwise to absent.
C8_ResolutionPrecedence ==
    pc = "loop" =>
        LET cols == df_merged.columns
        IN  /\ fields.rev_col = FirstContaining(cols, "Total Revenue")
            /\ fields.op_col = FirstContaining(cols, "Operating Income")
            /\ fields.liab_col =
                  Preferred(cols, "Total Liabilities Net Minority Interest",
                            "Total Liabilities")
            /\ fields.equity_col =
                  Preferred(cols, "Stockholders Equity", "Common Stock Equity")
            /\ fields.eps_col = Preferred(cols, "Diluted EPS", "Basic EPS")

C8_Witness ==
    /\ pc = "loop"
    /\ df_merged.columns = <<"Total Liabilities", "Basic EPS",
                             "Total Liabilities Net Minority Interest", "Total Assets">>
    /\ fields.liab_col = <<"Total Liabilities Net Minority Interest">>
    /\ fields.eps_col = <<"Basic EPS">>
    /\ fields.equity_col = <<>>

\* C9: the in-memory favorites list never holds a ticker twice; add_favorite of
\* a ticker already present and remove_favorite of a ticker not present leave
\* the list and the file as they were.
C9_OrderedSet ==
    /\ NoDuplicates(favorites)
    /\ ((call.op = "add" /\ call.present) \/ (call.op = "remove" /\ ~call.present))
          => /\ favorites = call.favorites_before
             /\ file = call.file_before

C9_Witness ==
    /\ call.op = "add"
    /\ call.present
    /\ Len(favorites) = 2
    /\ file = JsonFile(favorites)

====
